---- MODULE Spec2Model ----
(***************************************************************************)
(* Model of the Auto Answer API (src/main.py): a FastAPI application whose *)
(* handlers are coroutines of one asyncio event loop.  The answers table   *)
(* and the api_usage table live in answers.db; CACHE is the process-wide   *)
(* in-memory mirror that /answer matches against.                          *)
(*                                                                         *)
(* Text is a sequence of characters; a character is a one-letter string,   *)
(* or a name for a non-ASCII code point ("a_acute" is U+00E1, "A_acute"    *)
(* is U+00C1, "U5317" is the CJK ideograph U+5317).  Sequences are indexed *)
(* from 1: the code's index i is i + 1 here.                               *)
(***************************************************************************)
EXTENDS Integers, Sequences, FiniteSets, Bags, TLC

VARIABLES
    store,       \* the rows of table answers, in rowid order
    api_usage,   \* table api_usage: ip -> counter for today, 0 for no row
    passed,      \* history: ip -> answer requests let through by check_usage_limit
    CACHE,       \* CACHE["data"], CACHE["norm_questions"]
    cacheGen,    \* history: which load_cache call assigned each CACHE entry
    rebuilds,    \* history: number of load_cache calls so far
    cur,         \* the handler the event loop is running, NoFrame when none
    waiting,     \* bag of import_csv coroutines suspended at `await file.read()`
    txt,         \* normalizer study: the text under study
    norms        \* normalizer study: the successive normalizations of txt

vars == <<store, api_usage, passed, CACHE, cacheGen, rebuilds, cur, waiting, txt, norms>>

appVars == <<store, api_usage, passed, CACHE, cacheGen, rebuilds, cur, waiting>>

studyVars == <<txt, norms>>

----------------------------------------------------------------------------
(* Program constants *)

API_KEY == "123abc"

DAILY_LIMIT == 20

THRESHOLD == 70

MAX_FILE_SIZE == 2000000

MAX_ROWS == 500

----------------------------------------------------------------------------
(* Bounds of the exploration *)

\* load_cache calls explored in one run, the one at startup included
MaxRebuilds == 3

\* a fresh counter is followed up to this value; counters next to DAILY_LIMIT
\* come from the persisted table
MaxFreshUsage == 1

\* length of the texts of the normalizer study
MaxTextLen == 3

----------------------------------------------------------------------------
(* Text: str.lower, unidecode, str.strip *)

\* an optional text: <<>> is Python's None, <<t>> is the text t
None == <<>>

Some(t) == <<t>>

RECURSIVE Flatten(_)
Flatten(ss) ==
    IF ss = <<>> THEN <<>>
    ELSE IF Len(ss) = 1 THEN ss[1]
    ELSE LET h == Len(ss) \div 2
         IN  Flatten(SubSeq(ss, 1, h)) \o Flatten(SubSeq(ss, h + 1, Len(ss)))

\* str.lower on one code point: cased letters map to their lower-case letter,
\* everything else (digits, punctuation, space, uncased ideographs) stays
LowerChar(c) ==
    CASE c = "A" -> "a"
      [] c = "B" -> "b"
      [] c = "I" -> "i"
      [] c = "O" -> "o"
      [] c = "A_acute" -> "a_acute"
      [] OTHER -> c

lower(t) == [i \in 1..Len(t) |-> LowerChar(t[i])]

\* unidecode on one code point: ASCII stays, an accented letter becomes its
\* base letter of the same case, the ideograph U+5317 becomes "Bei "
UnidecodeChar(c) ==
    CASE c = "a_acute" -> <<"a">>
      [] c = "A_acute" -> <<"A">>
      [] c = "U5317" -> <<"B", "e", "i", " ">>
      [] OTHER -> <<c>>

unidecode(t) == Flatten([i \in 1..Len(t) |-> UnidecodeChar(t[i])])

RECURSIVE lstrip(_)
lstrip(t) ==
    IF t # <<>> /\ Head(t) = " " THEN lstrip(Tail(t)) ELSE t

RECURSIVE rstrip(_)
rstrip(t) ==
    IF t # <<>> /\ t[Len(t)] = " " THEN rstrip(SubSeq(t, 1, Len(t) - 1)) ELSE t

strip(t) == rstrip(lstrip(t))

----------------------------------------------------------------------------
(* rapidfuzz: fuzz.ratio and process.extractOne *)

Max(a, b) == IF a >= b THEN a ELSE b

RECURSIVE LCS(_, _)
LCS(s, t) ==
    IF s = <<>> \/ t = <<>> THEN 0
    ELSE IF s[Len(s)] = t[Len(t)]
         THEN 1 + LCS(SubSeq(s, 1, Len(s) - 1), SubSeq(t, 1, Len(t) - 1))
         ELSE Max(LCS(SubSeq(s, 1, Len(s) - 1), t), LCS(s, SubSeq(t, 1, Len(t) - 1)))

\* fuzz.ratio(s, t): 100 * (1 - indel distance / (len s + len t)), and 100 when
\* both are empty.  The score is the exact fraction num / den.
ratio(s, t) ==
    IF Len(s) + Len(t) = 0
    THEN [num |-> 100, den |-> 1]
    ELSE LET dist == Len(s) + Len(t) - 2 * LCS(s, t)
         IN  [num |-> 100 * (Len(s) + Len(t) - dist), den |-> Len(s) + Len(t)]

ScoreGt(a, b) == a.num * b.den > b.num * a.den

ScoreGe(a, b) == a.num * b.den >= b.num * a.den

ScoreEq(a, b) == a.num * b.den = b.num * a.den

Score(n) == [num |-> n, den |-> 1]

NoMatch == [idx |-> 0]

\* the scan with a later choice of equal score replacing the best so far
RECURSIVE extractOneFromLast(_, _, _, _)
extractOneFromLast(query, choices, i, best) ==
    IF i > Len(choices) THEN best
    ELSE LET score == ratio(query, choices[i])
             better == best.idx = 0 \/ ScoreGe(score, best.score)
             next == IF better
                     THEN [match |-> choices[i], score |-> score, idx |-> i]
                     ELSE best
         IN  IF ScoreEq(score, Score(100)) THEN next
             ELSE extractOneFromLast(query, choices, i + 1, next)

\* the scan of process.extractOne from choice i on: a choice replaces the best
\* so far only with a strictly greater score, and a score of 100 ends the scan
RECURSIVE extractOneFrom(_, _, _, _)
extractOneFrom(query, choices, i, best) ==
    IF i > Len(choices) THEN best
    ELSE LET score == ratio(query, choices[i])
             better == best.idx = 0 \/ ScoreGt(score, best.score)
             next == IF better
                     THEN [match |-> choices[i], score |-> score, idx |-> i]
                     ELSE best
         IN  IF ScoreEq(score, Score(100)) THEN next
             ELSE extractOneFrom(query, choices, i + 1, next)

\* process.extractOne(query, choices, scorer=fuzz.ratio): NoMatch stands for
\* the None it returns on an empty list
extractOne(query, choices) == extractOneFrom(query, choices, 1, NoMatch)

----------------------------------------------------------------------------
(* Requests explored *)

IPs == {"ip1", "ip2"}

Keys == {API_KEY, "wrong"}

\* NewAnswer payloads of POST /add.  The first two questions differ in case
\* only, so they normalize alike and carry different answers.
AddItems ==
    { [question |-> <<"O", "i">>, answer |-> <<"x">>, category |-> None],
      [question |-> <<"o", "i">>, answer |-> <<"y">>, category |-> Some(<<"c">>)],
      [question |-> <<"O", "l", "a_acute">>, answer |-> <<"x">>, category |-> None] }

\* question texts of POST /answer: "OI", "oi?" and U+00E1
Queries == { <<"O", "I">>, <<"o", "i", "?">>, <<"a_acute">> }

\* uploads of POST /import_csv: size in bytes, whether the bytes decode as
\* UTF-8, and the rows csv.reader yields.  One row with blanks to strip, two
\* rows, a second row with one field only, and the empty file.
Files ==
    { [size |-> 12, utf8 |-> TRUE,
       rows |-> << <<<<" ", "O", "l", "a_acute", " ">>, <<" ", "x">>>> >>],
      [size |-> 16, utf8 |-> TRUE,
       rows |-> << <<<<"O", "i">>, <<"x">>>>,
                   <<<<"o", "i">>, <<"y">>, <<"c">>>> >>],
      [size |-> 9, utf8 |-> TRUE,
       rows |-> << <<<<"O", "i">>, <<"x">>>>, <<<<"o", "i">>>> >>],
      [size |-> 0, utf8 |-> TRUE, rows |-> <<>>] }

\* what table api_usage may hold for today when the process starts: nothing,
\* or a counter one below the limit for the first address
InitUsage ==
    { [ip \in IPs |-> IF ip = "ip1" THEN c ELSE 0] : c \in {0, DAILY_LIMIT - 1} }

\* what table answers may hold when the process starts
InitStores ==
    { <<>>,
      << [question |-> <<"O", "l", "a_acute">>, answer |-> <<"x">>,
          question_norm |-> <<"o", "l", "a">>, category |-> None] >> }

----------------------------------------------------------------------------
(* Frames and responses *)

Frame(op, pc) ==
    [op |-> op, pc |-> pc, keyOk |-> TRUE, ip |-> "", question |-> <<>>,
     item |-> [question |-> <<>>, answer |-> <<>>, category |-> None],
     file |-> [size |-> 0, utf8 |-> TRUE, rows |-> <<>>],
     rows |-> <<>>, g |-> 0, input_norm |-> <<>>, score |-> Score(0), idx |-> 0,
     seen |-> <<>>, ev |-> <<>>, resp |-> [status |-> "none"]]

NoFrame == Frame("none", "idle")

\* raise HTTPException(status_code=code) or an uncaught exception (500): the
\* handler ends and the response goes out
Raise(f, code) == [f EXCEPT !.pc = "done", !.resp = [status |-> code]]

Respond(f, body) == [f EXCEPT !.pc = "done", !.resp = body]

\* f"{score:.1f}": the score in tenths, rounded to nearest
Tenths(score) == (20 * score.num + score.den) \div (2 * score.den)

----------------------------------------------------------------------------
(* 1. AUTH *)

validate_api_key(key) == key = API_KEY

(* 3. MEMORY CACHE *)

\* DataOf with the two columns swapped
DataOfSwapped(rows) ==
    [i \in 1..Len(rows) |-> <<rows[i].answer, rows[i].question>>]

\* line 77: [(r[0], r[1]) for r in rows]
DataOf(rows) == [i \in 1..Len(rows) |-> <<rows[i].question, rows[i].answer>>]

\* NormQuestionsOf stopping one row short
NormQuestionsOfShort(rows) ==
    [i \in 1..(Len(rows) - 1) |-> rows[i].question_norm]

\* line 78: [r[2] for r in rows]
NormQuestionsOf(rows) == [i \in 1..Len(rows) |-> rows[i].question_norm]

\* One coroutine runs at a time and gives the loop up only at an await: the
\* one await of the program is `await file.read()` in import_csv.
Idle == cur.pc = "idle"

\* a mutation request may arrive while the rebuilds it and the suspended
\* imports can still make fit the exploration
MutationBudget == rebuilds + BagCardinality(waiting) < MaxRebuilds

UsageFollowed(counter) ==
    counter <= MaxFreshUsage \/ counter >= DAILY_LIMIT - 1

Init ==
    /\ store \in InitStores
    /\ api_usage \in InitUsage
    /\ passed = [ip \in IPs |-> 0]
    /\ CACHE = [data |-> DataOf(store), norm_questions |-> NormQuestionsOf(store)]
    /\ cacheGen = [data |-> 1, norm_questions |-> 1]
    /\ rebuilds = 1
    /\ cur = NoFrame
    /\ waiting = EmptyBag
    /\ txt = <<>>
    /\ norms = <<>>

\* load_cache, lines 71-75: SELECT question, answer, question_norm FROM answers
load_cache_select ==
    /\ cur.pc = "load_cache"
    /\ rebuilds' = rebuilds + 1
    /\ cur' = [cur EXCEPT !.pc = "load_cache_data", !.rows = store,
                          !.g = rebuilds + 1, !.ev = Append(@, "load_cache")]
    /\ UNCHANGED <<store, api_usage, passed, CACHE, cacheGen, waiting, studyVars>>

\* load_cache without line 77
load_cache_data_skip ==
    /\ cur.pc = "load_cache_data"
    /\ cur' = [cur EXCEPT !.pc = "load_cache_norm"]
    /\ UNCHANGED <<store, api_usage, passed, CACHE, cacheGen, rebuilds, waiting, studyVars>>

\* load_cache, line 77
load_cache_data ==
    /\ cur.pc = "load_cache_data"
    /\ CACHE' = [CACHE EXCEPT !.data = DataOf(cur.rows)]
    /\ cacheGen' = [cacheGen EXCEPT !.data = cur.g]
    /\ cur' = [cur EXCEPT !.pc = "load_cache_norm"]
    /\ UNCHANGED <<store, api_usage, passed, rebuilds, waiting, studyVars>>

\* load_cache without line 78
load_cache_norm_skip ==
    /\ cur.pc = "load_cache_norm"
    /\ cur' = [cur EXCEPT !.pc = "return"]
    /\ UNCHANGED <<store, api_usage, passed, CACHE, cacheGen, rebuilds, waiting, studyVars>>

\* load_cache, line 78
load_cache_norm ==
    /\ cur.pc = "load_cache_norm"
    /\ CACHE' = [CACHE EXCEPT !.norm_questions = NormQuestionsOf(cur.rows)]
    /\ cacheGen' = [cacheGen EXCEPT !.norm_questions = cur.g]
    /\ cur' = [cur EXCEPT !.pc = "return"]
    /\ UNCHANGED <<store, api_usage, passed, rebuilds, waiting, studyVars>>

(* 5. DAILY RATE LIMIT *)

\* check_usage_limit refusing only above the limit
check_usage_limit_above ==
    /\ cur.pc = "check_usage_limit"
    /\ LET counter == api_usage[cur.ip]
       IN  IF counter # 0 /\ counter > DAILY_LIMIT
           THEN /\ cur' = Raise(cur, "429")
                /\ UNCHANGED <<api_usage, passed>>
           ELSE /\ api_usage' = [api_usage EXCEPT ![cur.ip] = counter + 1]
                /\ passed' = [passed EXCEPT ![cur.ip] = @ + 1]
                /\ cur' = [cur EXCEPT !.pc = "check_empty"]
    /\ UNCHANGED <<store, CACHE, cacheGen, rebuilds, waiting, studyVars>>

\* check_usage_limit: counter 0 stands for "no row for (ip, today)"; the table
\* never holds a 0, its rows start at 1
check_usage_limit ==
    /\ cur.pc = "check_usage_limit"
    /\ LET counter == api_usage[cur.ip]
       IN  IF counter # 0 /\ counter >= DAILY_LIMIT
           THEN /\ cur' = Raise(cur, "429")
                /\ UNCHANGED <<api_usage, passed>>
           ELSE /\ api_usage' = [api_usage EXCEPT ![cur.ip] = counter + 1]
                /\ passed' = [passed EXCEPT ![cur.ip] = @ + 1]
                /\ cur' = [cur EXCEPT !.pc = "check_empty"]
    /\ UNCHANGED <<store, CACHE, cacheGen, rebuilds, waiting, studyVars>>

(* 6. ANSWER ENDPOINT *)

\* what a read of CACHE[key] sees: the list's length and the load_cache call
\* that assigned it
Read(key) == [key |-> key, gen |-> cacheGen[key], len |-> Len(CACHE[key])]

\* POST /answer counting the request before it validates the key
answer_question_quota_first(question, api_key, ip) ==
    /\ Idle
    /\ UsageFollowed(api_usage[ip])
    /\ LET f == [Frame("answer", "check_usage_limit") EXCEPT
                    !.question = question, !.ip = ip,
                    !.keyOk = validate_api_key(api_key)]
       IN  IF validate_api_key(api_key)
           THEN cur' = f /\ UNCHANGED api_usage
           ELSE /\ cur' = Raise(f, "401")
                /\ api_usage' = [api_usage EXCEPT ![ip] =
                                    IF @ < DAILY_LIMIT THEN @ + 1 ELSE @]
    /\ UNCHANGED <<store, passed, CACHE, cacheGen, rebuilds, waiting, studyVars>>

\* POST /answer arrives; line 124: validate_api_key
answer_question(question, api_key, ip) ==
    /\ Idle
    /\ UsageFollowed(api_usage[ip])
    /\ LET f == [Frame("answer", "check_usage_limit") EXCEPT
                    !.question = question, !.ip = ip,
                    !.keyOk = validate_api_key(api_key)]
       IN  cur' = IF validate_api_key(api_key) THEN f ELSE Raise(f, "401")
    /\ UNCHANGED <<store, api_usage, passed, CACHE, cacheGen, rebuilds, waiting, studyVars>>

\* the test left out
CacheEmptyNever == FALSE

\* line 129: not CACHE["data"]
CacheEmpty == CACHE.data = <<>>

\* the emptiness test reloading the cache from the table when it finds it empty
answer_check_empty_reload ==
    /\ cur.pc = "check_empty"
    /\ LET f == [cur EXCEPT !.seen = Append(@, Read("data"))]
       IN  cur' = IF CacheEmpty
                  THEN [f EXCEPT !.pc = "load_cache"]
                  ELSE [f EXCEPT !.pc = "extractOne"]
    /\ UNCHANGED <<store, api_usage, passed, CACHE, cacheGen, rebuilds, waiting, studyVars>>

\* lines 129-130: if not CACHE["data"]
answer_check_empty ==
    /\ cur.pc = "check_empty"
    /\ LET f == [cur EXCEPT !.seen = Append(@, Read("data"))]
       IN  cur' = IF CacheEmpty
                  THEN Respond(f, [status |-> "empty"])
                  ELSE [f EXCEPT !.pc = "extractOne"]
    /\ UNCHANGED <<store, api_usage, passed, CACHE, cacheGen, rebuilds, waiting, studyVars>>

\* line 132
input_norm_of(question) == unidecode(lower(question))

\* lines 132-138: unpacking the None that extractOne returns on an empty list
\* raises TypeError
answer_extract ==
    /\ cur.pc = "extractOne"
    /\ LET input_norm == input_norm_of(cur.question)
           m == extractOne(input_norm, CACHE.norm_questions)
           f == [cur EXCEPT !.input_norm = input_norm,
                            !.seen = Append(@, Read("norm_questions"))]
       IN  cur' = IF m.idx = 0
                  THEN Raise(f, "500")
                  ELSE [f EXCEPT !.pc = "threshold", !.score = m.score, !.idx = m.idx]
    /\ UNCHANGED <<store, api_usage, passed, CACHE, cacheGen, rebuilds, waiting, studyVars>>

\* the comparison turned round
AcceptedInverted(score) == ScoreGe(Score(THRESHOLD), score)

\* line 140: score >= 70
Accepted(score) == ScoreGe(score, Score(THRESHOLD))

\* lines 140-146: CACHE["data"][idx] raises IndexError past the end of the list
answer_threshold ==
    /\ cur.pc = "threshold"
    /\ cur' = IF Accepted(cur.score)
              THEN LET f == [cur EXCEPT !.seen = Append(@, Read("data"))]
                   IN  IF cur.idx \in 1..Len(CACHE.data)
                       THEN Respond(f, [status |-> "ok",
                                        answer |-> CACHE.data[cur.idx][2],
                                        confidence |-> Tenths(cur.score)])
                       ELSE Raise(f, "500")
              ELSE Respond(cur, [status |-> "unknown"])
    /\ UNCHANGED <<store, api_usage, passed, CACHE, cacheGen, rebuilds, waiting, studyVars>>

\* the response leaves and the event loop is free again
Return ==
    /\ cur.pc = "done"
    /\ cur' = NoFrame
    /\ UNCHANGED <<store, api_usage, passed, CACHE, cacheGen, rebuilds, waiting, studyVars>>

(* 8. INSERT NEW ANSWER *)

\* POST /add arrives; line 179: validate_api_key
add_answer(item, api_key) ==
    /\ Idle
    /\ MutationBudget
    /\ LET f == [Frame("add", "insert") EXCEPT
                    !.item = item, !.keyOk = validate_api_key(api_key)]
       IN  cur' = IF validate_api_key(api_key) THEN f ELSE Raise(f, "401")
    /\ UNCHANGED <<store, api_usage, passed, CACHE, cacheGen, rebuilds, waiting, studyVars>>

\* line 181
q_norm_add(question) == unidecode(lower(question))

\* add_answer putting the new row before the rows already there
add_insert_prepend ==
    /\ cur.op = "add" /\ cur.pc = "insert"
    /\ store' = <<[question |-> cur.item.question,
                   answer |-> cur.item.answer,
                   question_norm |-> q_norm_add(cur.item.question),
                   category |-> cur.item.category]>> \o store
    /\ cur' = [cur EXCEPT !.pc = "load_cache", !.ev = Append(@, "commit")]
    /\ UNCHANGED <<api_usage, passed, CACHE, cacheGen, rebuilds, waiting, studyVars>>

\* add_answer without the load_cache() of line 192
add_insert_no_refresh ==
    /\ cur.op = "add" /\ cur.pc = "insert"
    /\ store' = Append(store, [question |-> cur.item.question,
                               answer |-> cur.item.answer,
                               question_norm |-> q_norm_add(cur.item.question),
                               category |-> cur.item.category])
    /\ cur' = [cur EXCEPT !.pc = "return", !.ev = Append(@, "commit")]
    /\ UNCHANGED <<api_usage, passed, CACHE, cacheGen, rebuilds, waiting, studyVars>>

\* lines 181-190: INSERT INTO answers, commit
add_insert ==
    /\ cur.op = "add" /\ cur.pc = "insert"
    /\ store' = Append(store, [question |-> cur.item.question,
                               answer |-> cur.item.answer,
                               question_norm |-> q_norm_add(cur.item.question),
                               category |-> cur.item.category])
    /\ cur' = [cur EXCEPT !.pc = "load_cache", !.ev = Append(@, "commit")]
    /\ UNCHANGED <<api_usage, passed, CACHE, cacheGen, rebuilds, waiting, studyVars>>

\* line 194
add_return ==
    /\ cur.op = "add" /\ cur.pc = "return"
    /\ cur' = Respond(cur, [status |-> "ok", added |-> cur.item])
    /\ UNCHANGED <<store, api_usage, passed, CACHE, cacheGen, rebuilds, waiting, studyVars>>

(* 9. IMPORT CSV *)

MAX_QUESTION_LEN == 500

MAX_ANSWER_LEN == 2000

MAX_CATEGORY_LEN == 100

\* lines 237-252: the checks of one row
RowAccepted(row) ==
    /\ Len(row) >= 2
    /\ Len(strip(row[1])) <= MAX_QUESTION_LEN
    /\ Len(strip(row[2])) <= MAX_ANSWER_LEN
    /\ Len(row) >= 3 => Len(strip(row[3])) <= MAX_CATEGORY_LEN

\* the normalized question without the lower-casing
q_norm_import_nolower(q) == unidecode(q)

\* line 266
q_norm_import(q) == unidecode(lower(q))

\* lines 262-271: the record inserted for one row
RowRecord(row) ==
    LET q == strip(row[1])
    IN  [question |-> q,
         answer |-> strip(row[2]),
         question_norm |-> q_norm_import(q),
         category |-> IF Len(row) >= 3 THEN Some(strip(row[3])) ELSE None]

\* POST /import_csv arrives; lines 202-218: validate_api_key, the size limit,
\* then the coroutine waits for file.read()
import_csv(file, api_key) ==
    /\ Idle
    /\ MutationBudget
    /\ LET f == [Frame("import", "read") EXCEPT
                    !.file = file, !.keyOk = validate_api_key(api_key)]
       IN  IF ~validate_api_key(api_key)
           THEN cur' = Raise(f, "401") /\ UNCHANGED waiting
           ELSE IF file.size > MAX_FILE_SIZE
                THEN cur' = Raise(f, "400") /\ UNCHANGED waiting
                ELSE waiting' = waiting (+) SetToBag({file}) /\ UNCHANGED cur
    /\ UNCHANGED <<store, api_usage, passed, CACHE, cacheGen, rebuilds, studyVars>>

\* the rows before the first one that fails its checks
RECURSIVE AcceptedPrefix(_)
AcceptedPrefix(rows) ==
    IF rows = <<>> \/ ~RowAccepted(Head(rows)) THEN <<>>
    ELSE <<Head(rows)>> \o AcceptedPrefix(Tail(rows))

\* import_csv checking each row as it inserts it, the rows before a bad one
\* staying in the table
import_resume_rowwise(file) ==
    /\ Idle
    /\ BagIn(file, waiting)
    /\ waiting' = waiting (-) SetToBag({file})
    /\ LET f == [Frame("import", "insert") EXCEPT !.file = file]
           ok == /\ file.utf8
                 /\ Len(file.rows) <= MAX_ROWS
                 /\ \A i \in 1..Len(file.rows) : RowAccepted(file.rows[i])
           kept == IF file.utf8 /\ Len(file.rows) <= MAX_ROWS
                   THEN AcceptedPrefix(file.rows) ELSE <<>>
       IN  /\ cur' = IF ok THEN f ELSE Raise(f, "400")
           /\ store' = IF ok THEN store
                       ELSE store \o [i \in 1..Len(kept) |-> RowRecord(kept[i])]
    /\ UNCHANGED <<api_usage, passed, CACHE, cacheGen, rebuilds, studyVars>>

\* file.read() completes; lines 218-252: decoding, the row limit, the row checks
import_resume(file) ==
    /\ Idle
    /\ BagIn(file, waiting)
    /\ waiting' = waiting (-) SetToBag({file})
    /\ LET f == [Frame("import", "insert") EXCEPT !.file = file]
       IN  cur' = IF /\ file.utf8
                     /\ Len(file.rows) <= MAX_ROWS
                     /\ \A i \in 1..Len(file.rows) : RowAccepted(file.rows[i])
                  THEN f
                  ELSE Raise(f, "400")
    /\ UNCHANGED <<store, api_usage, passed, CACHE, cacheGen, rebuilds, studyVars>>

\* import_csv without the load_cache() of line 280
import_insert_no_refresh ==
    /\ cur.op = "import" /\ cur.pc = "insert"
    /\ store' = store \o [i \in 1..Len(cur.file.rows) |-> RowRecord(cur.file.rows[i])]
    /\ cur' = [cur EXCEPT !.pc = "return", !.ev = Append(@, "commit")]
    /\ UNCHANGED <<api_usage, passed, CACHE, cacheGen, rebuilds, waiting, studyVars>>

\* lines 257-275: one INSERT per row, one commit
import_insert ==
    /\ cur.op = "import" /\ cur.pc = "insert"
    /\ store' = store \o [i \in 1..Len(cur.file.rows) |-> RowRecord(cur.file.rows[i])]
    /\ cur' = [cur EXCEPT !.pc = "load_cache", !.ev = Append(@, "commit")]
    /\ UNCHANGED <<api_usage, passed, CACHE, cacheGen, rebuilds, waiting, studyVars>>

\* line 282
import_return ==
    /\ cur.op = "import" /\ cur.pc = "return"
    /\ cur' = Respond(cur, [status |-> "ok", added |-> Len(cur.file.rows)])
    /\ UNCHANGED <<store, api_usage, passed, CACHE, cacheGen, rebuilds, waiting, studyVars>>

----------------------------------------------------------------------------
(* The application *)

Next ==
    \/ \E q \in Queries, k \in Keys, ip \in IPs : answer_question(q, k, ip)
    \/ check_usage_limit
    \/ answer_check_empty
    \/ answer_extract
    \/ answer_threshold
    \/ \E item \in AddItems, k \in Keys : add_answer(item, k)
    \/ add_insert
    \/ add_return
    \/ \E file \in Files, k \in Keys : import_csv(file, k)
    \/ \E file \in Files : import_resume(file)
    \/ import_insert
    \/ import_return
    \/ load_cache_select
    \/ load_cache_data
    \/ load_cache_norm
    \/ Return

Spec == Init /\ [][Next]_vars

----------------------------------------------------------------------------
(* The uploads on their own: /import_csv with every kind of upload the     *)
(* checks of lines 212-252 tell apart, the limits met exactly and exceeded *)
(* by one                                                                  *)

Rep(n, x) == [i \in 1..n |-> x]

GoodRow == << <<"o", "i">>, <<"x">> >>

UploadFiles ==
    Files \cup
    { \* one byte over the size limit
      [size |-> MAX_FILE_SIZE + 1, utf8 |-> TRUE, rows |-> <<GoodRow>>],
      \* bytes that are not UTF-8
      [size |-> 5, utf8 |-> FALSE, rows |-> <<>>],
      \* one row over the row limit
      [size |-> 4008, utf8 |-> TRUE, rows |-> Rep(MAX_ROWS + 1, GoodRow)],
      \* a question of the longest length allowed once stripped
      [size |-> 506, utf8 |-> TRUE,
       rows |-> << << <<" ">> \o Rep(MAX_QUESTION_LEN, "a") \o <<" ">>, <<"x">> >> >>],
      \* a good row, then a question one character too long
      [size |-> 512, utf8 |-> TRUE,
       rows |-> << GoodRow, << Rep(MAX_QUESTION_LEN + 1, "a"), <<"x">> >> >>],
      \* an answer one character too long
      [size |-> 2005, utf8 |-> TRUE,
       rows |-> << << <<"o", "i">>, Rep(MAX_ANSWER_LEN + 1, "x") >> >>],
      \* a good row, then a category one character too long
      [size |-> 114, utf8 |-> TRUE,
       rows |-> << GoodRow,
                   << <<"o", "i">>, <<"x">>, Rep(MAX_CATEGORY_LEN + 1, "c") >> >>] }

NextUploads ==
    \/ \E item \in AddItems, k \in Keys : add_answer(item, k)
    \/ add_insert
    \/ add_return
    \/ \E file \in UploadFiles, k \in Keys : import_csv(file, k)
    \/ \E file \in UploadFiles : import_resume(file)
    \/ import_insert
    \/ import_return
    \/ load_cache_select
    \/ load_cache_data
    \/ load_cache_norm
    \/ Return

SpecUploads == Init /\ [][NextUploads]_vars

----------------------------------------------------------------------------
(* The normalizer on its own: every text up to MaxTextLen over an alphabet   *)
(* with a cased letter, an accented letter in both cases and an ideograph    *)

StudyAlphabet == {"a", "A", "a_acute", "U5317"}

Texts == UNION { [1..n -> StudyAlphabet] : n \in 0..MaxTextLen }

\* the normalizer of lines 132, 181 and 266
normalize(t) == unidecode(lower(t))

InitStudy ==
    /\ store = <<>>
    /\ api_usage = [ip \in IPs |-> 0]
    /\ passed = [ip \in IPs |-> 0]
    /\ CACHE = [data |-> <<>>, norm_questions |-> <<>>]
    /\ cacheGen = [data |-> 1, norm_questions |-> 1]
    /\ rebuilds = 1
    /\ cur = NoFrame
    /\ waiting = EmptyBag
    /\ txt \in Texts
    /\ norms = <<>>

\* normalize the text, then normalize the result
NormalizeOnce ==
    /\ norms = <<>>
    /\ norms' = <<normalize(txt)>>
    /\ UNCHANGED <<appVars, txt>>

NormalizeAgain ==
    /\ Len(norms) = 1
    /\ norms' = Append(norms, normalize(norms[1]))
    /\ UNCHANGED <<appVars, txt>>

NextStudy == NormalizeOnce \/ NormalizeAgain

SpecStudy == InitStudy /\ [][NextStudy]_vars

----------------------------------------------------------------------------
(* Properties *)

\* an answer request that got past the API key and the quota
AnswerServed ==
    /\ cur.op = "answer"
    /\ cur.pc = "done"
    /\ cur.resp.status \notin {"401", "429"}

MutationInProgress ==
    \/ cur.op \in {"add", "import"}
    \/ waiting # EmptyBag

\* C1: whatever load_cache calls and suspended imports surround an answer
\* request, the reads it makes of CACHE["data"] (the emptiness check, the
\* answer lookup) and of CACHE["norm_questions"] (the matching) see lists of
\* equal length assigned by one and the same load_cache call.
C1_ReadsFromOneRebuild ==
    cur.op = "answer" =>
        \A i, j \in 1..Len(cur.seen) :
            /\ cur.seen[i].gen = cur.seen[j].gen
            /\ cur.seen[i].len = cur.seen[j].len

\* an answer request has made its three reads while an import is suspended
\* and after a rebuild at run time
C1_Witness ==
    /\ cur.op = "answer"
    /\ Len(cur.seen) = 3
    /\ cur.seen[2].key = "norm_questions"
    /\ waiting # EmptyBag
    /\ cacheGen.data >= 2

\* C2: whenever no /add and no /import_csv request is in progress, the cache
\* is the projection of the answers table: both lists have the table's length
\* and entry i holds (question, answer) and question_norm of row i.
C2_CacheIsProjection ==
    ~MutationInProgress =>
        /\ Len(CACHE.data) = Len(store)
        /\ Len(CACHE.norm_questions) = Len(store)
        /\ \A i \in 1..Len(store) :
            /\ CACHE.data[i] = <<store[i].question, store[i].answer>>
            /\ CACHE.norm_questions[i] = store[i].question_norm

\* two mutation requests have completed, one of them an import, and nothing
\* is in progress
C2_Witness ==
    /\ ~MutationInProgress
    /\ rebuilds = 3
    /\ Len(store) >= 3

\* C3: an answer request whose normalized text equals the question_norm of a
\* stored record is matched: it ends ok with a score of at least 70, never
\* empty or unknown.
C3_AddedRecordIsMatched ==
    AnswerServed /\ (\E i \in 1..Len(store) :
                        store[i].question_norm = unidecode(lower(cur.question)))
        => /\ cur.resp.status = "ok"
           /\ ScoreGe(cur.score, Score(70))

\* the request matched a record that a request added at run time (the table
\* holds at most one row at startup)
C3_Witness ==
    /\ AnswerServed
    /\ cur.resp.status = "ok"
    /\ cur.idx >= 2
    /\ store[cur.idx].question_norm = unidecode(lower(cur.question))

\* a mutation request that was refused: a wrong API key, or an upload that
\* fails a check of lines 212-252
MutationRefused ==
    \/ ~cur.keyOk
    \/ /\ cur.op = "import"
       /\ \/ cur.file.size > MAX_FILE_SIZE
          \/ ~cur.file.utf8
          \/ Len(cur.file.rows) > 500
          \/ \E i \in 1..Len(cur.file.rows) : ~RowAccepted(cur.file.rows[i])

\* C4: a /add or /import_csv request that reports success has committed its
\* rows, then called load_cache exactly once, and that call has assigned both
\* cache lists, all before the response; a refused request does not report
\* success.
C4_OneRebuildBeforeSuccess ==
    cur.op \in {"add", "import"} /\ cur.pc = "done" =>
        /\ cur.resp.status = "ok" =>
              /\ cur.ev = <<"commit", "load_cache">>
              /\ cur.g = rebuilds
              /\ cacheGen = [data |-> cur.g, norm_questions |-> cur.g]
        /\ MutationRefused => cur.resp.status # "ok"

\* an import of two rows reports success
C4_Witness ==
    /\ cur.op = "import"
    /\ cur.pc = "done"
    /\ cur.resp.status = "ok"
    /\ cur.resp.added = 2

\* C5: an answer request that got past the key and the quota ends ok, empty
\* or unknown; on a non-empty cache it ends ok, with the answer stored at the
\* matched index, exactly when some cached question scores at least 70
\* against the normalized text, and unknown otherwise.
C5_ThresholdDecides ==
    AnswerServed =>
        LET nq == CACHE.norm_questions
            hit == \E j \in 1..Len(nq) :
                      ScoreGe(ratio(unidecode(lower(cur.question)), nq[j]), Score(70))
        IN  /\ cur.resp.status \in {"ok", "empty", "unknown"}
            /\ CACHE.data # <<>> /\ hit =>
                  /\ cur.resp.status = "ok"
                  /\ cur.resp.answer = CACHE.data[cur.idx][2]
            /\ CACHE.data # <<>> /\ ~hit => cur.resp.status = "unknown"

\* a request ends ok on a best score below 100, against a cache of two
\* entries or more
C5_Witness ==
    /\ AnswerServed
    /\ cur.resp.status = "ok"
    /\ ~ScoreGe(cur.score, Score(100))
    /\ Len(CACHE.data) >= 2

\* C6: on an empty cache an answer request ends empty whatever the question,
\* and unknown is returned on a non-empty cache only.
C6_EmptyIsNotUnknown ==
    AnswerServed =>
        /\ CACHE.data = <<>> => cur.resp.status = "empty"
        /\ CACHE.norm_questions = <<>> => cur.resp.status = "empty"
        /\ cur.resp.status = "unknown" => CACHE.data # <<>>
        /\ cur.resp.status = "empty" => CACHE.data = <<>>

\* a request ends empty
C6_Witness ==
    /\ AnswerServed
    /\ cur.resp.status = "empty"
    /\ cur.question = <<"o", "i", "?">>

\* C7: the index the matcher returns is within the cached questions, no
\* cached question scores higher than the one there, and every one before it
\* scores strictly lower; an ok response carries the answer of that record
\* of the table.
C7_FirstBestMatch ==
    cur.op = "answer" /\ cur.idx # 0 =>
        LET nq == CACHE.norm_questions
            sc(j) == ratio(cur.input_norm, nq[j])
        IN  /\ cur.idx \in 1..Len(nq)
            /\ \A j \in 1..Len(nq) : ScoreGe(sc(cur.idx), sc(j))
            /\ \A j \in 1..(cur.idx - 1) : ScoreGt(sc(cur.idx), sc(j))
            /\ cur.pc = "done" /\ cur.resp.status = "ok" =>
                  cur.resp.answer = store[cur.idx].answer

\* an ok response where a later record has the same normalized question and
\* another answer
C7_Witness ==
    /\ AnswerServed
    /\ cur.resp.status = "ok"
    /\ \E j \in (cur.idx + 1)..Len(store) :
          /\ store[j].question_norm = store[cur.idx].question_norm
          /\ store[j].answer # store[cur.idx].answer

\* every stored question_norm is unidecode(lower(question)) of its own
\* record, and the text an answer request matches with is unidecode(lower())
\* of its question
NormsDerived ==
    /\ \A i \in 1..Len(store) :
          store[i].question_norm = unidecode(lower(store[i].question))
    /\ cur.op = "answer" /\ cur.pc \in {"threshold", "done"} /\ Len(cur.seen) >= 2 =>
          cur.input_norm = unidecode(lower(cur.question))

\* a step keeps every stored row as it is
RowsKept ==
    /\ Len(store') >= Len(store)
    /\ \A i \in 1..Len(store) : store'[i] = store[i]

\* C8: in every record of the table question_norm is the lower-cased,
\* unidecoded question of the same record, an answer request normalizes its
\* question the same way, and no step changes a stored record.
C8_QuestionNormDerived == [](NormsDerived) /\ [][RowsKept]_vars

\* the table holds a row of /add and a row of /import_csv whose questions
\* differ from their normalized forms, and an answer request has matched
C8_Witness ==
    /\ Len(store) >= 2
    /\ \E i \in 1..Len(store) :
          /\ store[i].question = <<"O", "l", "a_acute">>
          /\ store[i].question_norm = <<"o", "l", "a">>
    /\ \E i \in 1..Len(store) :
          /\ store[i].question = <<"O", "i">>
          /\ store[i].question_norm = <<"o", "i">>
    /\ cur.op = "answer"
    /\ cur.pc = "threshold"
    /\ cur.question = <<"O", "I">>
    /\ cur.input_norm = <<"o", "i">>

\* C9: normalizing a normalized text changes nothing:
\* normalize(normalize(t)) = normalize(t) for every text t.
C9_NormalizeIdempotent ==
    Len(norms) = 2 => norms[2] = norms[1]

\* C10: the score the matcher returns lies in [0, 100], and when the answer
\* request comes to read CACHE["data"][idx] the index it got from
\* CACHE["norm_questions"] is an index of CACHE["data"]; no answer request
\* ends in an uncaught exception.
C10_IndexAndScoreInRange ==
    /\ cur.op = "answer" /\ cur.pc = "threshold" =>
          /\ ScoreGe(cur.score, Score(0))
          /\ ScoreGe(Score(100), cur.score)
          /\ cur.idx \in 1..Len(CACHE.norm_questions)
          /\ cur.idx \in 1..Len(CACHE.data)
    /\ cur.op = "answer" /\ cur.pc = "done" => cur.resp.status # "500"

\* the request is about to read CACHE["data"][idx] for a second entry or a
\* later one, after a rebuild at run time and with an import suspended
C10_Witness ==
    /\ cur.op = "answer"
    /\ cur.pc = "threshold"
    /\ Accepted(cur.score)
    /\ cur.idx >= 2
    /\ cacheGen.norm_questions >= 2
    /\ waiting # EmptyBag

\* C11: process.extractOne is never called on an empty list: an answer
\* request that has passed the emptiness test of CACHE["data"] finds
\* CACHE["norm_questions"] non-empty when it calls the matcher, and the read
\* it made for the call saw a non-empty list.
C11_MatcherHasCandidates ==
    cur.op = "answer" =>
        /\ cur.pc = "extractOne" => CACHE.norm_questions # <<>>
        /\ \A i \in 1..Len(cur.seen) :
              cur.seen[i].key = "norm_questions" => cur.seen[i].len > 0

\* the request is about to call the matcher on a list of one entry, having
\* tested CACHE["data"] only
C11_Witness ==
    /\ cur.op = "answer"
    /\ cur.pc = "extractOne"
    /\ Len(cur.seen) = 1
    /\ cur.seen[1].key = "data"
    /\ Len(CACHE.norm_questions) = 1

\* a step of an answer request: its arrival, a step of its handler, or the
\* departure of its response
AnswerStep == cur.op = "answer" \/ cur'.op = "answer"

\* the address an answer step is made for
AnswerStepIp == IF cur.op = "answer" THEN cur.ip ELSE cur'.ip

\* an answer step leaves the table, the cache and the suspended imports alone
\* and changes no counter but the caller's
AnswerStepFrame ==
    AnswerStep =>
        /\ store' = store
        /\ CACHE' = CACHE
        /\ cacheGen' = cacheGen
        /\ rebuilds' = rebuilds
        /\ waiting' = waiting
        /\ \A ip \in IPs \ {AnswerStepIp} :
              api_usage'[ip] = api_usage[ip] /\ passed'[ip] = passed[ip]

\* an answer request has selected no rows of table answers and called no
\* load_cache: what it read, it read from CACHE
AnswerReadsCacheOnly ==
    cur.op = "answer" =>
        /\ cur.rows = <<>>
        /\ cur.ev = <<>>
        /\ \A i \in 1..Len(cur.seen) : cur.seen[i].key \in {"data", "norm_questions"}

\* C12: whatever its outcome, an answer request changes neither the answers
\* table nor the cache lists, reads CACHE and never the table, and changes at
\* most the quota counter of the calling address.
C12_AnswerIsReadOnly == [](AnswerReadsCacheOnly) /\ [][AnswerStepFrame]_vars

\* an answer request of the first address ends ok on a cache of two entries
\* or more, the second address having a counter of its own
C12_Witness ==
    /\ AnswerServed
    /\ cur.resp.status = "ok"
    /\ cur.ip = "ip1"
    /\ api_usage["ip2"] = 1
    /\ Len(store) >= 2

\* sequence t begins with sequence s
Extends(t, s) ==
    /\ Len(t) >= Len(s)
    /\ \A i \in 1..Len(s) : t[i] = s[i]

\* C13: no request removes, rewrites or reorders a stored row: every step
\* leaves the table extending what it was, and every assignment of a cache
\* list leaves the list extending what it was, so rebuild after rebuild the
\* cache never shrinks and old entries keep their indices.
C13_AppendOnly ==
    [][/\ Extends(store', store)
       /\ Extends(CACHE'.data, CACHE.data)
       /\ Extends(CACHE'.norm_questions, CACHE.norm_questions)]_vars

\* an /add and a two-row import have both completed on top of the row the
\* table started with, and the cache holds the four rows
C13_Witness ==
    /\ Idle
    /\ rebuilds = 3
    /\ Len(store) = 4
    /\ Len(CACHE.data) = 4
    /\ Len(CACHE.norm_questions) = 4
    /\ \E st \in InitStores : st # <<>> /\ store[1] = st[1]

\* an upload that breaks a limit: over 2 MB, not UTF-8, over 500 rows, a row
\* of fewer than 2 fields, or a stripped field longer than its limit
UploadFaulty(file) ==
    \/ file.size > MAX_FILE_SIZE
    \/ ~file.utf8
    \/ Len(file.rows) > MAX_ROWS
    \/ \E i \in 1..Len(file.rows) :
          LET row == file.rows[i]
          IN  IF Len(row) < 2 THEN TRUE
              ELSE \/ Len(strip(row[1])) > MAX_QUESTION_LEN
                   \/ Len(strip(row[2])) > MAX_ANSWER_LEN
                   \/ Len(row) >= 3 /\ Len(strip(row[3])) > MAX_CATEGORY_LEN

\* the last records of the table are the rows of the file, in file order
RowsAppended(rows) ==
    /\ Len(store) >= Len(rows)
    /\ \A i \in 1..Len(rows) :
          LET r == store[Len(store) - Len(rows) + i]
          IN  /\ r.question = strip(rows[i][1])
              /\ r.answer = strip(rows[i][2])
              /\ r.category = IF Len(rows[i]) >= 3
                              THEN Some(strip(rows[i][3])) ELSE None

\* how an upload with a valid key ends
UploadOutcome ==
    cur.op = "import" /\ cur.keyOk =>
        /\ UploadFaulty(cur.file) =>
              /\ cur.pc = "done"
              /\ cur.resp.status = "400"
              /\ cur.ev = <<>>
        /\ cur.pc = "done" /\ ~UploadFaulty(cur.file) =>
              /\ cur.resp = [status |-> "ok", added |-> Len(cur.file.rows)]
              /\ RowsAppended(cur.file.rows)
              /\ Len(CACHE.data) = Len(store)

\* a step in which an upload is refused with 400, or its refusal is sent
UploadRefusedStep ==
    \/ cur'.op = "import" /\ cur'.pc = "done" /\ cur'.resp.status = "400"
    \/ cur.op = "import" /\ cur.pc = "done" /\ cur.resp.status = "400"

\* a step appends exactly the rows of the upload being inserted
UploadInsertStep ==
    cur.op = "import" /\ cur.pc = "insert" =>
        /\ Len(store') = Len(store) + Len(cur.file.rows)
        /\ SubSeq(store', 1, Len(store)) = store

\* C14: an upload over 2 MB, not UTF-8, of more than 500 rows, with a row of
\* fewer than 2 fields or with a question, answer or category over its
\* length limit is refused with 400, and in refusing it no row is appended,
\* load_cache is not called and the cache keeps its contents; any other
\* upload has every row appended in file order, and the count it reports is
\* the number of rows appended.
C14_UploadAllOrNothing ==
    /\ [](UploadOutcome)
    /\ [][/\ UploadRefusedStep =>
                /\ store' = store
                /\ CACHE' = CACHE
                /\ cacheGen' = cacheGen
                /\ rebuilds' = rebuilds
           /\ UploadInsertStep]_vars

\* an upload whose second row is bad is refused while the table and the
\* cache hold the rows of an earlier upload
C14_Witness ==
    /\ cur.op = "import"
    /\ cur.pc = "done"
    /\ cur.resp.status = "400"
    /\ Len(cur.file.rows) = 2
    /\ cur.file.size <= MAX_FILE_SIZE
    /\ rebuilds >= 2
    /\ Len(store) >= 2
    /\ Len(CACHE.data) = Len(store)

\* the counter of every address is at most the limit, and counts at least
\* the requests that got past it
QuotaBounded ==
    /\ \A ip \in IPs :
          /\ api_usage[ip] \in 0..DAILY_LIMIT
          /\ passed[ip] <= api_usage[ip]
    /\ cur.op = "answer" /\ cur.keyOk /\ cur.pc # "check_usage_limit" =>
          IF cur.pc = "done" /\ cur.resp.status = "429"
          THEN api_usage[cur.ip] = DAILY_LIMIT
          ELSE passed[cur.ip] >= 1

\* what a step does to the counters: the quota check of a request whose
\* counter is below the limit adds one to that counter and lets the request
\* on, the quota check at the limit refuses with 429 and leaves the
\* counters, and no other step touches them
QuotaStep ==
    IF cur.op = "answer" /\ cur.pc = "check_usage_limit"
    THEN IF api_usage[cur.ip] < DAILY_LIMIT
         THEN /\ api_usage' = [api_usage EXCEPT ![cur.ip] = api_usage[cur.ip] + 1]
              /\ passed' = [passed EXCEPT ![cur.ip] = passed[cur.ip] + 1]
              /\ cur'.pc = "check_empty"
         ELSE /\ api_usage' = api_usage
              /\ passed' = passed
              /\ cur'.pc = "done"
              /\ cur'.resp.status = "429"
    ELSE /\ api_usage' = api_usage
         /\ passed' = passed

\* C15: for every address the counter of the day never exceeds DAILY_LIMIT
\* (20); an answer request with a valid key whose counter is below 20 adds
\* exactly 1 to it and proceeds, whatever its outcome; at 20 every further
\* request of the address is refused with 429 and the counter stays, so at
\* most 20 requests of an address get past the quota in a day.
C15_DailyQuota == [](QuotaBounded) /\ [][QuotaStep]_vars

\* the address that started the day's run at 19 had one more request
\* let through, and its next one is refused at 20
C15_Witness ==
    /\ cur.op = "answer"
    /\ cur.pc = "done"
    /\ cur.resp.status = "429"
    /\ api_usage[cur.ip] = DAILY_LIMIT
    /\ passed[cur.ip] = 1

\* a request refused for its key has done nothing else
KeyRefused ==
    /\ ~cur.keyOk =>
          /\ cur.op \in {"answer", "add", "import"}
          /\ cur.pc = "done"
          /\ cur.resp.status = "401"
          /\ cur.ev = <<>>
          /\ cur.seen = <<>>
    /\ cur.pc = "done" /\ cur.resp.status = "401" => ~cur.keyOk

\* C16: a request to /answer, /add or /import_csv whose key is not API_KEY
\* ends with 401 and nothing else: the step that refuses it and the step
\* that sends the refusal leave the quota counters, the table and the cache
\* as they were, and no upload is left waiting for it.
C16_WrongKeyNoEffect ==
    /\ [](KeyRefused)
    /\ [][~cur'.keyOk \/ ~cur.keyOk =>
             UNCHANGED <<store, api_usage, passed, CACHE, cacheGen, rebuilds, waiting>>]_vars

\* an answer request with a wrong key is refused while the cache has records
\* and its address has no counter yet
C16_Witness ==
    /\ cur.op = "answer"
    /\ ~cur.keyOk
    /\ cur.resp.status = "401"
    /\ api_usage[cur.ip] = 0
    /\ Len(CACHE.data) >= 2

============================================================================
